---- MODULE Spec2Model ----
(***************************************************************************)
(* Incremental extraction and checkpointing engine of the Bitget ETL       *)
(* (src/src/etl/bitget_etl.py): time-window extraction of trades and       *)
(* deposits with a per-(affiliate, endpoint) checkpoint file, and polling  *)
(* extraction of the customer list with a per-affiliate seen-uid file.     *)
(*                                                                         *)
(* Times are epoch milliseconds.  Python's None is the value None below.   *)
(* Names that the source references without defining (self.time_window,    *)
(* etl_config.max_page_size, the batch variable of _save_to_bronze) are    *)
(* read as the fixed window duration, the page size and the page number.   *)
(* A call of _save_to_bronze either stores the batch or raises.            *)
(*                                                                         *)
(* The token-bucket RateLimiter and the request path of BitgetClient       *)
(* (src/src/api/bitget_client.py) are modelled per calling thread.  The    *)
(* clock of the limiter advances in ticks; one token refills in            *)
(* TicksPerToken ticks and tokens are counted in ticks of refill.          *)
(***************************************************************************)
EXTENDS Integers, FiniteSets, Sequences, TLC

\* ---------------------------------------------------------------- bounds
MaxUid == 3            \* record identifiers are 1..MaxUid
PageSize == 2          \* effective_page_size of every run
MaxPages == 2          \* the API serves a full page only before this page
MaxRuns == 2           \* number of extraction calls in one behaviour
MaxTicks == 1          \* number of clock advances in one behaviour
Burst == 2             \* burst of the rate limiter, in tokens
TicksPerToken == 2     \* clock ticks in 1 / rate seconds, the time of one token
MaxEntries == 3        \* entries in the data array of one response
MaxDays == 2           \* calendar days in one behaviour
MaxRows == 1           \* rows, and ids of rows, an extractor yields for one table

\* ------------------------------------------------------------- constants
LookbackMs == 600000   \* timedelta(minutes=10) in milliseconds
TimeWindow == 300000   \* self.time_window in milliseconds
TickMs == LookbackMs \div 10
HalfDays == 2          \* clock readings per calendar day

None == 0 - 1
Affiliates == {"A1", "A2"}
WindowEndpoints == {"trade_activities", "deposits"}
Uids == 1..MaxUid
PageNos == 1..MaxPages
ArgTimes == {None, 0, 7}
\* a customer page: any customers, seen before or not
Pages == {p \in SUBSET Uids : Cardinality(p) <= PageSize}
\* a trade or deposit page: the first n records of what is left in the window
WindowPages == {1..n : n \in 0..PageSize}

\* an affiliate id that is not configured
Unconfigured == "invalid_affiliate"
\* the HTTP responses: status, whether the body is JSON, envelope code, data length
Responses ==
    {[status |-> 200, json |-> TRUE, code |-> "00000", data |-> 1],
     [status |-> 200, json |-> TRUE, code |-> "40001", data |-> 0],
     [status |-> 200, json |-> TRUE, code |-> "ERR", data |-> 0],
     [status |-> 200, json |-> FALSE, code |-> "", data |-> 0],
     [status |-> 500, json |-> TRUE, code |-> "50000", data |-> 0]}
NoResp == [status |-> 0, json |-> FALSE, code |-> "", data |-> 0]

\* the endpoint methods of the client
EndpointMethods == {"customer_list", "trade_activities", "deposits", "assets"}
\* an entry of a data array: complete, lacking a required field, or with a
\* non-numeric value in a numeric field
Entries == [id : Uids, defect : {"none", "missing_field", "bad_number"}]
\* the data arrays
DataArrays == UNION {[1..n -> Entries] : n \in 0..MaxEntries}

\* the method argument of _make_request
Methods == {"GET", "POST", "post"}
\* the keys of a params dict, in insertion order
ParamKeys == <<"pageNo", "pageSize", "startTime">>
\* the values of a params dict: a str, an int, or None
ParamValues == {[type |-> "str", text |-> "1"], [type |-> "int", text |-> "7"],
                [type |-> "none", text |-> ""]}
\* params = None
NoParams == [given |-> FALSE, items |-> <<>>]
\* the params dicts: their items, by the positions of the keys in ParamKeys
ParamDicts ==
    {[given |-> TRUE, items |-> d] :
        d \in UNION {[ks -> ParamValues] : ks \in SUBSET (1..Len(ParamKeys))}}

\* client_id = None, and the client ids
NoClient == "<None>"
ClientIds == {"client_1"}
\* the lists config.affiliates can be: the configured affiliates in any order
RECURSIVE ListsOf(_)
ListsOf(S) ==
    {<<>>} \cup UNION {{<<a>> \o l : l \in ListsOf(S \ {a})} : a \in S}
AffiliateLists == ListsOf(Affiliates)
\* the exceptions an extraction can raise
ErrorKinds == {"RequestException", "ValueError"}
NoError == [kind |-> "none", where |-> "none"]
\* an extraction returns, or raises one of the exceptions
Outcomes == {"ok"} \cup ErrorKinds

\* two extraction runs, each with its own BitgetETL object
SaverRuns == {"first", "second"}
\* the clock readings of datetime.now()
ClockTimes == 0..(MaxDays * HalfDays - 1)
\* the record lists handed to _save_to_bronze
Batches == {1..n : n \in 1..PageSize}
NoBatch == [status |-> "none", path |-> <<>>, recs |-> {}]

\* the bronze tables and the records handed to the loaders
Tables == {"bronze_customers", "bronze_deposits", "bronze_trades", "bronze_assets"}
LoadRecords == [affiliate_id : Affiliates, id : Uids]
LoadLists == UNION {[1..n -> LoadRecords] : n \in 0..MaxEntries}

\* the timestamps _save_last_timestamp is called with
SavedTimes == {7, 42}
DigitChars == <<"0", "1", "2", "3", "4", "5", "6", "7", "8", "9">>
NoFile == [exists |-> FALSE, text |-> <<>>]
NoLoad == [kind |-> "none", value |-> None]

\* the outcomes of one pass of a window loop: the request raises, or returns n
\* records, which _save_to_bronze stores or fails to store
PageOutcomes ==
    {[kind |-> "error", n |-> 0, saveOk |-> TRUE]}
        \cup [kind : {"page"}, n : 0..PageSize, saveOk : BOOLEAN]
\* a window extraction that has not been called
NoMachine ==
    [pc |-> "idle", st |-> None, et |-> None, start_ts |-> None, end_ts |-> None,
     current_page |-> 0, has_more |-> FALSE, requests |-> <<>>, saves |-> <<>>,
     cpWrite |-> [written |-> FALSE, value |-> None]]

\* the threads that call the rate limiter: one more than the bucket holds
Threads == 1..(Burst + 1)
\* the full bucket; tokens are counted in units of one clock tick of refill
Full == Burst * TicksPerToken

VARIABLES
    checkpoint,    \* logs/checkpoints/last_timestamp_{aff}_{endpoint}.txt, None = no file
    seenFile,      \* .bitget_cache/seen_uids_{aff}.json
    bronze,        \* the batches the running call has stored in data/bronze, in order
    writtenBefore, \* per affiliate: the uids that earlier polling runs stored
    now,           \* datetime.utcnow() in milliseconds
    runs,          \* extraction calls made so far
    pc,            \* position of the running call
    op,            \* endpoint of the running call
    aff,           \* affiliate_id of the running call
    argStart,      \* start_time argument
    argEnd,        \* end_time argument
    argPageNo,     \* page_no argument
    start_ts,
    end_ts,
    current_page,
    has_more,
    records,       \* the page the last request returned
    seen_uids,     \* the in-memory seen set of extract_customer_list
    h              \* history of the running call

\* the state of the extractor
evars == <<checkpoint, seenFile, bronze, writtenBefore, now, runs, pc, op, aff, argStart,
           argEnd, argPageNo, start_ts, end_ts, current_page, has_more, records,
           seen_uids, h>>

VARIABLES
    tokens,        \* RateLimiter.tokens
    sinceUpdate,   \* time.time() - self.last_update, in ticks (kept up to Full)
    lock,          \* RateLimiter.lock: 0 = free, else the thread that holds it
    rpc,           \* per thread: its position in acquire()
    sleepLeft,     \* per thread: ticks left of its time.sleep
    loaded,        \* per thread: the value read by self.tokens -= 1
    elapsed,       \* ticks since construction (kept up to TicksPerToken)
    waited,        \* per thread: its acquire() has slept
    overlapped     \* some thread called acquire() while another was inside it

\* the state of the rate limiter
rvars == <<tokens, sinceUpdate, lock, rpc, sleepLeft, loaded, elapsed, waited, overlapped>>

VARIABLES
    cpc,           \* per thread: the position of its client request
    unknownAff,    \* per thread: the affiliate_id of its request is not configured
    httpSent,      \* per thread: the HTTP requests its call has dispatched
    cresp          \* per thread: the HTTP response its call received

\* the state of the client requests
cvars == <<cpc, unknownAff, httpSent, cresp>>

VARIABLES
    dmethod,       \* the endpoint method of the last call that parsed a data array
    payload,       \* response.data of that call
    dresult        \* what the endpoint method gave: a list of records, or an error

\* the state of the record parsing
dvars == <<dmethod, payload, dresult>>

VARIABLES
    smethod,       \* the method of the last request that was signed and sent
    sparams,       \* its params
    signedBody,    \* the body string that entered the signed message
    sentBody       \* the body that requests transmitted

\* the state of the request signing
svars == <<smethod, sparams, signedBody, sentBody>>

VARIABLES
    ostage,        \* run_etl: "idle", the extraction it is about to invoke, "done", "failed"
    oaff,          \* its affiliate_id
    oclient,       \* its client_id
    ostart,        \* its start_time
    oend,          \* its end_time
    calls,         \* the extractions this run_etl has invoked, in order
    oerror,        \* the exception that ended an invocation, and where it was raised
    runError,      \* the exception run_etl raised to its caller
    cpWritten,     \* the (affiliate, endpoint) checkpoints this run_etl has written
    dstatus,       \* the batch driver: "off", "loop", "done", "failed"
    dconfig,       \* config.affiliates
    dpos,          \* the position in config.affiliates of the affiliate in the loop
    dinvoked       \* the affiliates the driver has invoked run_etl for

\* the state of run_etl and of the batch driver
ovars == <<ostage, oaff, oclient, ostart, oend, calls, oerror, runError, cpWritten,
           dstatus, dconfig, dpos, dinvoked>>

VARIABLES
    ftime,         \* datetime.now()
    fday,          \* per run: self.timestamp.strftime("%Y/%m/%d"), None before __init__
    files,         \* data/bronze: the batch files by path, with their records
    fsaved         \* per run: the batch its _save_to_bronze call was given

\* the state of the bronze landing zone
fvars == <<ftime, fday, files, fsaved>>

VARIABLES
    lphase,        \* "empty", "once", "twice": the loads made into the table
    ltable,        \* the table that is loaded
    ldata,         \* the list of records that is loaded
    lrows,         \* the rows of the table
    lserial,       \* the next value of the SERIAL column
    lrowsOnce      \* the rows after the first load

\* the state of the relational bronze sink
lvars == <<lphase, ltable, ldata, lrows, lserial, lrowsOnce>>

VARIABLES
    kfile,         \* per affiliate and endpoint: the checkpoint file
    kpc,           \* _save_last_timestamp: "idle", "entered", "opened", "written", "stopped"
    ksave,         \* its arguments, and the file before the call
    kloaded        \* what the _load_last_timestamp after the stop gave

\* the state of the checkpoint file store
kvars == <<kfile, kpc, ksave, kloaded>>

VARIABLES
    xcp,           \* logs/checkpoints: the checkpoint files that exist, by name
    xseen,         \* .bitget_cache: the seen-uid files that exist, by name
    xtokens,       \* the tokens of the one rate limiter
    xruns,         \* extraction calls made so far
    xpc,           \* per affiliate: the position of its extraction thread
    xop,           \* per affiliate: the endpoint its thread extracts
    xpage,         \* per affiliate: current_page
    xrecords,      \* per affiliate: the page its last request returned
    xlocal,        \* per affiliate: seen_uids in memory
    xend,          \* per affiliate: end_ts
    xoverlap       \* an extraction was called while the other thread was in one

\* the state of the concurrent extraction
xvars == <<xcp, xseen, xtokens, xruns, xpc, xop, xpage, xrecords, xlocal, xend, xoverlap>>

VARIABLES
    mt,            \* extract_trade_activities: its locals and what it has done
    md,            \* extract_deposits, called with the same state, arguments and outcomes
    bpc,           \* run_bronze_etl.main: "start", "create", "load", "ended", "failed"
    bqueue,        \* the affiliate ids still to process, the first being processed
    bstage,        \* the position in process_affiliate: the index of the table
    bdb,           \* the database: the rows and the SERIAL counter of each table
    bloaded        \* the (table, affiliate) pairs for which rows were loaded

\* the state of the two window extractions run side by side
mvars == <<mt, md>>

\* the state of the bronze table loader driver
bvars == <<bpc, bqueue, bstage, bdb, bloaded>>

\* the parts modelled on their own
pvars == <<dvars, svars, ovars, fvars, lvars, kvars, xvars, mvars, bvars>>

vars == <<evars, rvars, cvars, pvars>>

\* what each part leaves alone
restD == <<evars, rvars, cvars, svars, ovars, fvars, lvars, kvars, xvars, mvars, bvars>>
restS == <<evars, rvars, cvars, dvars, ovars, fvars, lvars, kvars, xvars, mvars, bvars>>
restO == <<evars, rvars, cvars, dvars, svars, fvars, lvars, kvars, xvars, mvars, bvars>>
restF == <<evars, rvars, cvars, dvars, svars, ovars, lvars, kvars, xvars, mvars, bvars>>
restL == <<evars, rvars, cvars, dvars, svars, ovars, fvars, kvars, xvars, mvars, bvars>>
restK == <<evars, rvars, cvars, dvars, svars, ovars, fvars, lvars, xvars, mvars, bvars>>
restX == <<evars, rvars, cvars, dvars, svars, ovars, fvars, lvars, kvars, mvars, bvars>>
restM == <<evars, rvars, cvars, dvars, svars, ovars, fvars, lvars, kvars, xvars, bvars>>
restB == <<evars, rvars, cvars, dvars, svars, ovars, fvars, lvars, kvars, xvars, mvars>>

\* ------------------------------------------------------- pure functions

\* Python truthiness of an Optional[int]
Truthy(x) == x # None /\ x # 0

\* x or y
PyOr(x, y) == IF Truthy(x) THEN x ELSE y

\* _load_last_timestamp, a mutant that never reads the file
LoadLastTimestamp_lookback(cp, a, e, nowMs) == nowMs - LookbackMs

\* _load_last_timestamp
LoadLastTimestamp(cp, a, e, nowMs) ==
    IF cp[a][e] # None THEN cp[a][e] ELSE nowMs - LookbackMs

\* _save_last_timestamp, a mutant that writes the trades file for every endpoint
SaveLastTimestamp_tradesKey(cp, a, e, ts) ==
    [cp EXCEPT ![a]["trade_activities"] = ts]

\* _save_last_timestamp
SaveLastTimestamp(cp, a, e, ts) == [cp EXCEPT ![a][e] = ts]

\* start_ts = start_time or self._load_last_timestamp(...)
ResolveStart(st, cp, a, e, nowMs) == PyOr(st, LoadLastTimestamp(cp, a, e, nowMs))

\* end_ts = end_time or (start_ts + window)
ResolveEnd(et, start) == PyOr(et, start + TimeWindow)

\* the guard, a mutant that never saves
IsDefaultRun_never(st, et) == st # st /\ et # et

\* the guard, a mutant that tests either argument
IsDefaultRun_either(st, et) == st = None \/ et = None

\* the guard, a mutant that always saves
IsDefaultRun_always(st, et) == st = st /\ et = et

\* start_time is None and end_time is None
IsDefaultRun(st, et) == st = None /\ et = None

\* new_records, a mutant that filters in direct page mode too
NewRecords_filtered(recs, seen, pageNo) == {r \in recs : r \notin seen}

\* new_records, a mutant that never filters
NewRecords_all(recs, seen, pageNo) == recs

\* new_records of extract_customer_list
NewRecords(recs, seen, pageNo) ==
    IF pageNo # None THEN recs ELSE {r \in recs : r \notin seen}

\* _load_seen_uids: the empty set when the file does not exist
LoadSeenUids(sf, a) == sf[a]

\* _store_seen_uids, a mutant that marks every uid as seen
StoreSeenUids_every(sf, a, seen) == [sf EXCEPT ![a] = Uids]

\* _store_seen_uids
StoreSeenUids(sf, a, seen) == [sf EXCEPT ![a] = seen]

\* the page counter, a mutant that skips a page
NextPage_skip(p) == p + 2

\* current_page += 1, and the step of range(1, 999999)
NextPage(p) == p + 1

\* the affiliate check, a mutant that accepts every id
IsConfigured_any(a) == a = a

\* affiliate_id in self.affiliates
IsConfigured(a) == a \in Affiliates

\* the dispatch, a mutant that does not wait for acquire() to return
CanSend_early(r) == r = r

\* the request is dispatched after self.rate_limiter.acquire() has returned
CanSend(r) == r = "done"

\* raise_for_status, a mutant that accepts every status
StatusOk_any(status) == status = status

\* response.raise_for_status() raises for 4xx and 5xx
StatusOk(status) == ~(status >= 400 /\ status < 600)

\* APIResponse.validate_code: v.isdigit()
IsDigit(code) == code \in {"00000", "40001", "50000"}

\* _make_request raises: the status, response.json() or the APIResponse validation
Raises(r) == ~StatusOk(r.status) \/ ~r.json \/ ~IsDigit(r.code)

\* XRecord(**record): pydantic accepts the entry
ValidRecord(entry) == entry.defect = "none"

\* [XRecord(**record) for record in response.data]: the records in order, or the
\* ValidationError of the first entry the model rejects
RECURSIVE ParseFrom(_, _, _)
ParseFrom(data, i, acc) ==
    IF i > Len(data) THEN [kind |-> "list", records |-> acc]
    ELSE IF ~ValidRecord(data[i]) THEN [kind |-> "error", records |-> <<>>]
    ELSE ParseFrom(data, i + 1, Append(acc, data[i].id))

\* if response.data: return [...]; return []
ParseRecords(data) ==
    IF data = <<>> THEN [kind |-> "list", records |-> <<>>]
    ELSE ParseFrom(data, 1, <<>>)

\* method.upper()
Upper(m) == IF m = "post" THEN "POST" ELSE m

\* bool(params): None and the empty dict are falsy
HasParams(params) == params.given /\ DOMAIN params.items # {}

\* repr of a key or value: str in single quotes, int bare, None as None
PyRepr(v) ==
    IF v.type = "str" THEN <<"'", v.text, "'">>
    ELSE IF v.type = "int" THEN <<v.text>>
    ELSE <<"None">>

\* the JSON text of a key or value: str in double quotes, int bare, None as null
JsonText(v) ==
    IF v.type = "str" THEN <<"\"", v.text, "\"">>
    ELSE IF v.type = "int" THEN <<v.text>>
    ELSE <<"null">>

StrValue(k) == [type |-> "str", text |-> k]

\* the items of a dict from position i on, with ", " between items
RECURSIVE PyItems(_, _, _)
PyItems(params, i, first) ==
    IF i > Len(ParamKeys) THEN <<>>
    ELSE IF i \notin DOMAIN params.items THEN PyItems(params, i + 1, first)
    ELSE (IF first THEN <<>> ELSE <<", ">>)
         \o PyRepr(StrValue(ParamKeys[i])) \o <<": ">> \o PyRepr(params.items[i])
         \o PyItems(params, i + 1, FALSE)

RECURSIVE JsonItems(_, _, _)
JsonItems(params, i, first) ==
    IF i > Len(ParamKeys) THEN <<>>
    ELSE IF i \notin DOMAIN params.items THEN JsonItems(params, i + 1, first)
    ELSE (IF first THEN <<>> ELSE <<", ">>)
         \o JsonText(StrValue(ParamKeys[i])) \o <<": ">> \o JsonText(params.items[i])
         \o JsonItems(params, i + 1, FALSE)

\* str(params)
PyStr(params) == <<"{">> \o PyItems(params, 1, TRUE) \o <<"}">>

\* json.dumps(params), as requests does for its json argument
JsonDumps(params) == <<"{">> \o JsonItems(params, 1, TRUE) \o <<"}">>

\* body of _make_request: str(params) for a POST with params, else ''
RequestBody(m, params) ==
    IF Upper(m) = "POST" /\ HasParams(params) THEN PyStr(params) ELSE <<>>

\* body_str of _sign_request
SignedBody(m, body) == IF body # <<>> /\ Upper(m) = "POST" THEN body ELSE <<>>

\* what requests puts in the body: nothing for requests.get (params go into the
\* query string) and for json=None, else the JSON text of params
TransmittedBody(m, params) ==
    IF Upper(m) = "GET" THEN <<>>
    ELSE IF ~params.given THEN <<>>
    ELSE JsonDumps(params)

\* self.timestamp.strftime("%Y/%m/%d"): the calendar day, the time of day is dropped
DatePath(t) == t \div HalfDays

\* save_path / filename: base_path / affiliate_id / endpoint / date_path / batch_{page}.json
BatchPath(a, e, day, page) == <<"data/bronze", a, e, day, <<"batch_", page, ".json">>>>

\* open(file_path, 'w') and json.dump: the file is created or replaced
WriteFile(fs, path, recs) ==
    [p \in DOMAIN fs \cup {path} |-> IF p = path THEN recs ELSE fs[p]]

\* the primary key of a record in a table; the SERIAL id of bronze_trades and
\* bronze_assets is not among the inserted columns
HasNaturalKey(t) == t \in {"bronze_customers", "bronze_deposits"}
KeyOf(t, rec) ==
    IF t = "bronze_customers" THEN <<rec.affiliate_id, rec.id>> ELSE <<rec.id>>

\* INSERT ... ON CONFLICT DO NOTHING of one row: skipped when a row with the same
\* primary key exists; a table with a SERIAL key gets the next id, which is new
InsertRow(t, tb, rec) ==
    IF HasNaturalKey(t)
    THEN IF \E row \in tb.rows : KeyOf(t, row.rec) = KeyOf(t, rec)
         THEN tb
         ELSE [rows |-> tb.rows \cup {[rec |-> rec, id |-> 0]}, serial |-> tb.serial]
    ELSE [rows |-> tb.rows \cup {[rec |-> rec, id |-> tb.serial]},
          serial |-> tb.serial + 1]

\* load_data: the rows of data are inserted in order
RECURSIVE InsertAll(_, _, _, _)
InsertAll(t, tb, data, i) ==
    IF i > Len(data) THEN tb
    ELSE InsertAll(t, InsertRow(t, tb, data[i]), data, i + 1)

\* the order in which process_affiliate handles the tables
TableOrder == <<"bronze_customers", "bronze_deposits", "bronze_trades", "bronze_assets">>

\* a table after CREATE TABLE: no rows, the SERIAL counter at its start
EmptyTable == [rows |-> {}, serial |-> 1]

\* create_*_table: DROP TABLE IF EXISTS followed by CREATE TABLE
CreateTable(tb) == EmptyTable

\* what an extractor of affiliate a yields: records that carry self.affiliate_id
ExtractLists(a) ==
    UNION {[1..n -> {r \in LoadRecords : r.affiliate_id = a /\ r.id <= MaxRows}] :
              n \in 0..MaxRows}

\* str(timestamp) for a timestamp below 100
StrInt(n) ==
    IF n < 10 THEN <<DigitChars[n + 1]>>
    ELSE <<DigitChars[(n \div 10) + 1], DigitChars[(n % 10) + 1]>>

DigitValue(c) == (CHOOSE i \in 1..Len(DigitChars) : DigitChars[i] = c) - 1

\* int(text) of a text of digits
RECURSIVE IntOf(_, _)
IntOf(text, acc) ==
    IF text = <<>> THEN acc ELSE IntOf(Tail(text), acc * 10 + DigitValue(Head(text)))

\* _load_last_timestamp: the default when the file does not exist, int(f.read())
\* otherwise, which raises ValueError for the empty text
LoadFile(file, nowMs) ==
    IF ~file.exists THEN [kind |-> "value", value |-> nowMs - LookbackMs]
    ELSE IF file.text = <<>> THEN [kind |-> "ValueError", value |-> None]
    ELSE [kind |-> "value", value |-> IntOf(file.text, 0)]

\* the name of a checkpoint file, a mutant without the affiliate
CheckpointName_shared(a, e) == <<"last_timestamp_", e, ".txt">>

\* f"last_timestamp_{affiliate_id}_{endpoint}.txt"
CheckpointName(a, e) == <<"last_timestamp_", a, "_", e, ".txt">>

\* f"seen_uids_{affiliate_id}.json"
SeenName(a) == <<"seen_uids_", a, ".json">>

\* a window extraction up to its while loop, for the stored checkpoint cpv
WindowEntry(e, cpv, st, et, nowMs) ==
    LET cp == [a \in Affiliates |-> [x \in WindowEndpoints |-> cpv]]
        start == ResolveStart(st, cp, "A1", e, nowMs) IN
    [NoMachine EXCEPT !.pc = "loop", !.st = st, !.et = et, !.start_ts = start,
                      !.end_ts = ResolveEnd(et, start), !.current_page = 1,
                      !.has_more = TRUE]

\* the request of the current page, added to the requests made
WithRequest(m) ==
    [m EXCEPT !.requests =
        Append(@, [page |-> m.current_page, start |-> m.start_ts, end |-> m.end_ts])]

\* the loop leaves by break
Break(m) == [m EXCEPT !.pc = "after"]

\* the loop test after a pass: while has_more
LoopTest(m) == IF m.has_more THEN m ELSE [m EXCEPT !.pc = "after"]

\* one pass of the loop of extract_trade_activities, a mutant that does not clear
\* has_more on a short page
TradeBody_noFlag(m, out) ==
    LET r == WithRequest(m) IN
    IF out.kind = "error" THEN LoopTest([r EXCEPT !.has_more = FALSE])
    ELSE IF out.n = 0 THEN Break(r)
    ELSE IF ~out.saveOk THEN LoopTest([r EXCEPT !.has_more = FALSE])
    ELSE LET saved == [r EXCEPT !.saves = Append(@, [page |-> r.current_page, n |-> out.n])]
         IN IF out.n < PageSize
            THEN LoopTest(saved)
            ELSE LoopTest([saved EXCEPT !.current_page = NextPage(@)])

\* one pass of the loop of extract_trade_activities
TradeBody(m, out) ==
    LET r == WithRequest(m) IN
    IF out.kind = "error" THEN LoopTest([r EXCEPT !.has_more = FALSE])
    ELSE IF out.n = 0 THEN Break(r)
    ELSE IF ~out.saveOk THEN LoopTest([r EXCEPT !.has_more = FALSE])
    ELSE LET saved == [r EXCEPT !.saves = Append(@, [page |-> r.current_page, n |-> out.n])]
         IN IF out.n < PageSize
            THEN LoopTest([saved EXCEPT !.has_more = FALSE])
            ELSE LoopTest([saved EXCEPT !.current_page = NextPage(@)])

\* one pass of the loop of extract_deposits
DepositBody(m, out) ==
    LET r == WithRequest(m) IN
    IF out.kind = "error" THEN LoopTest([r EXCEPT !.has_more = FALSE])
    ELSE IF out.n = 0 THEN Break(r)
    ELSE IF ~out.saveOk THEN LoopTest([r EXCEPT !.has_more = FALSE])
    ELSE LET saved == [r EXCEPT !.saves = Append(@, [page |-> r.current_page, n |-> out.n])]
         IN IF out.n < PageSize
            THEN Break(saved)
            ELSE LoopTest([saved EXCEPT !.current_page = NextPage(@)])

\* the statements after the loop of either method, and the return
AfterLoop(m) ==
    IF m.pc # "after" THEN m
    ELSE [m EXCEPT !.pc = "returned",
                   !.cpWrite = IF IsDefaultRun(m.st, m.et)
                               THEN [written |-> TRUE, value |-> m.end_ts]
                               ELSE @]

\* the first extraction of run_etl: the customer list only at affiliate level
FirstStage(cid) == IF cid = NoClient THEN "customer_list" ELSE "trade_activities"

\* the statement after an invocation, a mutant that goes on after an exception
StageAfter_swallow(stage, outcome) ==
    IF stage = "customer_list" THEN "trade_activities"
    ELSE IF stage = "trade_activities" THEN "deposits"
    ELSE IF stage = "deposits" THEN "assets"
    ELSE "done"

\* the statement after an invocation: run_etl has no try, an exception ends it
StageAfter(stage, outcome) ==
    IF outcome # "ok" THEN "failed"
    ELSE IF stage = "customer_list" THEN "trade_activities"
    ELSE IF stage = "trade_activities" THEN "deposits"
    ELSE IF stage = "deposits" THEN "assets"
    ELSE "done"

\* the exception of an invocation, as it leaves run_etl
Propagate(err) == err

\* the driver after run_etl raised: the except clause around the loop logs and
\* re-raises, which ends the loop
AfterRunFailed == "failed"

Min(x, y) == IF x <= y THEN x ELSE y

\* the refill, a mutant without the cap at burst
Refill_uncapped(tk, passed) == tk + passed

\* the refill, a mutant of rate 0
Refill_none(tk, passed) == Min(Full, tk)

\* self.tokens = min(self.burst, self.tokens + time_passed * self.rate)
Refill(tk, passed) == Min(Full, tk + passed)

\* the loop test, a mutant that never waits
NoToken_never(tk) == tk < tk

\* while self.tokens < 1
NoToken(tk) == tk < TicksPerToken

\* the lock, a mutant that admits every thread
CanLock_open(l) == l = l

\* with self.lock: a thread enters when no thread holds the lock
CanLock(l) == l = 0

\* self.tokens -= 1, the write
Decrement(tk) == tk - TicksPerToken

\* the checkpoint after the pagination loop of a window extraction
AfterWindow(cp, a, e, st, et, endTs) ==
    IF IsDefaultRun(st, et) THEN SaveLastTimestamp(cp, a, e, endTs) ELSE cp

\* the interruption, a mutant that treats it like the end of the loop
OnInterrupt_save(cp, a, e, st, et, endTs) ==
    IF IsDefaultRun(st, et) THEN SaveLastTimestamp(cp, a, e, endTs) ELSE cp

\* KeyboardInterrupt, SystemExit or a kill inside the while loop: neither except
\* Exception clause catches it and no statement after the loop runs
OnInterrupt(cp, a, e, st, et, endTs) == cp

\* _save_to_bronze: the batch file batch_{page}.json of (affiliate, endpoint).
\* The extractor never reads the sink, so the model keeps what the running call
\* stored and, per affiliate, the uids earlier polling runs stored.
SaveToBronze(saved, a, e, page, ids) ==
    Append(saved, [aff |-> a, endpoint |-> e, page |-> page, ids |-> ids])

\* the identifiers of the records in a list of batches
IdsOf(saved) == UNION {saved[i].ids : i \in 1..Len(saved)}

NoHist == [cpBefore |-> None, seenBefore |-> {}, nowAtCall |-> None,
           reqFailed |-> FALSE, saveFailed |-> FALSE, requests |-> <<>>,
           prevFailed |-> FALSE, prevStart |-> None]

\* ------------------------------------------------------------------ Init
Init ==
    /\ checkpoint = [a \in Affiliates |-> [e \in WindowEndpoints |-> None]]
    /\ seenFile = [a \in Affiliates |-> {}]
    /\ bronze = <<>>
    /\ writtenBefore = [a \in Affiliates |-> {}]
    /\ now = LookbackMs
    /\ runs = 0
    /\ pc = "idle"
    /\ op = "none"
    /\ aff = "A1"
    /\ argStart = None
    /\ argEnd = None
    /\ argPageNo = None
    /\ start_ts = None
    /\ end_ts = None
    /\ current_page = 0
    /\ has_more = FALSE
    /\ records = {}
    /\ seen_uids = {}
    /\ h = NoHist
    /\ tokens = Full
    /\ sinceUpdate = 0
    /\ lock = 0
    /\ rpc = [t \in Threads |-> "idle"]
    /\ sleepLeft = [t \in Threads |-> 0]
    /\ loaded = [t \in Threads |-> 0]
    /\ elapsed = 0
    /\ waited = [t \in Threads |-> FALSE]
    /\ overlapped = FALSE
    /\ cpc = [t \in Threads |-> "idle"]
    /\ unknownAff = [t \in Threads |-> FALSE]
    /\ httpSent = [t \in Threads |-> 0]
    /\ cresp = [t \in Threads |-> NoResp]
    /\ ostage = "idle"
    /\ oaff = "none"
    /\ oclient = NoClient
    /\ ostart = None
    /\ oend = None
    /\ calls = <<>>
    /\ oerror = NoError
    /\ runError = NoError
    /\ cpWritten = {}
    /\ dstatus = "off"
    /\ dconfig = <<>>
    /\ dpos = 0
    /\ dinvoked = {}
    /\ smethod = "none"
    /\ sparams = NoParams
    /\ signedBody = <<>>
    /\ sentBody = <<>>
    /\ dmethod = "none"
    /\ payload = <<>>
    /\ dresult = [kind |-> "none", records |-> <<>>]
    /\ xcp = <<>>
    /\ xseen = <<>>
    /\ xtokens = Burst
    /\ xruns = 0
    /\ xpc = [a \in Affiliates |-> "idle"]
    /\ xop = [a \in Affiliates |-> "none"]
    /\ xpage = [a \in Affiliates |-> 0]
    /\ xrecords = [a \in Affiliates |-> {}]
    /\ xlocal = [a \in Affiliates |-> {}]
    /\ xend = [a \in Affiliates |-> None]
    /\ xoverlap = FALSE
    /\ mt = NoMachine
    /\ bpc = "start"
    /\ bqueue = <<>>
    /\ bstage = 1
    /\ bdb = [t \in Tables |-> EmptyTable]
    /\ bloaded = {}
    /\ md = NoMachine
    /\ ftime = 0
    /\ fday = [r \in SaverRuns |-> None]
    /\ files = <<>>
    /\ fsaved = [r \in SaverRuns |-> NoBatch]
    /\ lphase = "empty"
    /\ ltable = "none"
    /\ ldata = <<>>
    /\ lrows = {}
    /\ lserial = 1
    /\ lrowsOnce = {}
    /\ kfile = [a \in Affiliates |-> [e \in WindowEndpoints |-> NoFile]]
    /\ kpc = "idle"
    /\ ksave = [a |-> "none", e |-> "none", ts |-> None, before |-> NoFile]
    /\ kloaded = NoLoad

\* the uids polling runs have saved, the finished run included
WrittenSoFar ==
    IF op = "customer_list" /\ argPageNo = None
    THEN [writtenBefore EXCEPT ![aff] = @ \cup IdsOf(bronze)]
    ELSE writtenBefore

CanCall == pc \in {"idle", "returned", "raised"} /\ runs < MaxRuns

\* the clock advances; the program reads it on entry of a window extraction only
Tick ==
    /\ pc \in {"idle", "returned", "raised"}
    /\ now < LookbackMs + MaxTicks * TickMs
    /\ now' = now + TickMs
    /\ UNCHANGED <<checkpoint, seenFile, bronze, writtenBefore, runs, pc, op, aff, argStart, argEnd,
                   argPageNo, start_ts, end_ts, current_page, has_more, records,
                   seen_uids, h>>
    /\ UNCHANGED <<rvars, cvars, pvars>>

\* ------------------------------------------- window extraction (Policy B)

\* the call before this one was a default-mode run for (a, e) with a failed request
PrevDefaultFailed(a, e) ==
    /\ pc = "returned"
    /\ op = e
    /\ aff = a
    /\ argStart = None
    /\ argEnd = None
    /\ h.reqFailed

\* the entry of a window extraction: page size, window, page counter
EnterWindow(e, a, st, et) ==
    /\ CanCall
    /\ runs' = runs + 1
    /\ op' = e
    /\ aff' = a
    /\ argStart' = st
    /\ argEnd' = et
    /\ argPageNo' = None
    /\ start_ts' = ResolveStart(st, checkpoint, a, e, now)
    /\ end_ts' = ResolveEnd(et, start_ts')
    /\ current_page' = 1
    /\ has_more' = TRUE
    /\ records' = {}
    /\ seen_uids' = {}
    /\ pc' = "request"
    /\ h' = [NoHist EXCEPT !.cpBefore = checkpoint[a][e], !.nowAtCall = now,
                           !.prevFailed = PrevDefaultFailed(a, e),
                           !.prevStart = IF PrevDefaultFailed(a, e) THEN start_ts
                                         ELSE None]
    /\ writtenBefore' = WrittenSoFar
    /\ bronze' = <<>>
    /\ UNCHANGED <<checkpoint, seenFile, now>>
    /\ UNCHANGED <<rvars, cvars, pvars>>

\* extract_trade_activities up to its while loop
CallTradeActivities(a, st, et) == EnterWindow("trade_activities", a, st, et)

\* extract_deposits up to its while loop
CallDeposits(a, st, et) == EnterWindow("deposits", a, st, et)

\* one page request of the running call and the records it returned (none on error)
Request(page, got) == [page |-> page, start |-> start_ts, end |-> end_ts, got |-> got]

\* the statements after the while loop, and the return
FinishWindow(hNew) ==
    /\ checkpoint' = AfterWindow(checkpoint, aff, op, argStart, argEnd, end_ts)
    /\ h' = hNew
    /\ pc' = "returned"

\* client.get_trade_activities / get_deposits returns a page
WindowRequestOk(page) ==
    /\ pc = "request"
    /\ op \in WindowEndpoints
    /\ Cardinality(page) = PageSize => current_page < MaxPages
    /\ records' = page
    /\ h' = [h EXCEPT !.requests = Append(@, Request(current_page, page))]
    /\ pc' = "process"
    /\ UNCHANGED <<checkpoint, seenFile, bronze, writtenBefore, now, runs, op, aff, argStart,
                   argEnd, argPageNo, start_ts, end_ts, current_page, has_more,
                   seen_uids>>
    /\ UNCHANGED <<rvars, cvars, pvars>>

\* the request raises: the except clause of the loop body, then the loop exit
WindowRequestFail ==
    /\ pc = "request"
    /\ op \in WindowEndpoints
    /\ has_more' = FALSE
    /\ FinishWindow([h EXCEPT !.requests = Append(@, Request(current_page, {})),
                              !.reqFailed = TRUE])
    /\ UNCHANGED <<seenFile, bronze, writtenBefore, now, runs, op, aff, argStart, argEnd,
                   argPageNo, start_ts, end_ts, current_page, records, seen_uids>>
    /\ UNCHANGED <<rvars, cvars, pvars>>

\* the run is cut short from outside while the pagination loop is running
Interrupt ==
    /\ pc \in {"request", "process"}
    /\ op \in WindowEndpoints
    /\ checkpoint' = OnInterrupt(checkpoint, aff, op, argStart, argEnd, end_ts)
    /\ pc' = "killed"
    /\ UNCHANGED <<seenFile, bronze, writtenBefore, now, runs, op, aff, argStart, argEnd,
                   argPageNo, start_ts, end_ts, current_page, has_more, records,
                   seen_uids, h>>
    /\ UNCHANGED <<rvars, cvars, pvars>>

\* the loop body of extract_trade_activities after the request
TradeProcess(saveOk) ==
    /\ pc = "process"
    /\ op = "trade_activities"
    /\ IF records = {}
       THEN /\ FinishWindow(h)
            /\ UNCHANGED <<bronze, current_page, has_more>>
       ELSE IF ~saveOk
       THEN /\ has_more' = FALSE
            /\ FinishWindow([h EXCEPT !.saveFailed = TRUE])
            /\ UNCHANGED <<bronze, current_page>>
       ELSE /\ bronze' = SaveToBronze(bronze, aff, op, current_page, records)
            /\ IF Cardinality(records) < PageSize
               THEN /\ has_more' = FALSE
                    /\ FinishWindow(h)
                    /\ UNCHANGED current_page
               ELSE /\ current_page' = NextPage(current_page)
                    /\ pc' = "request"
                    /\ UNCHANGED <<checkpoint, has_more, h>>
    /\ UNCHANGED <<seenFile, writtenBefore, now, runs, op, aff, argStart, argEnd,
                   argPageNo, start_ts, end_ts, records, seen_uids>>
    /\ UNCHANGED <<rvars, cvars, pvars>>

\* the loop body of extract_deposits after the request
DepositProcess(saveOk) ==
    /\ pc = "process"
    /\ op = "deposits"
    /\ IF records = {}
       THEN /\ FinishWindow(h)
            /\ UNCHANGED <<bronze, current_page, has_more>>
       ELSE IF ~saveOk
       THEN /\ has_more' = FALSE
            /\ FinishWindow([h EXCEPT !.saveFailed = TRUE])
            /\ UNCHANGED <<bronze, current_page>>
       ELSE /\ bronze' = SaveToBronze(bronze, aff, op, current_page, records)
            /\ IF Cardinality(records) < PageSize
               THEN /\ FinishWindow(h)
                    /\ UNCHANGED <<current_page, has_more>>
               ELSE /\ current_page' = NextPage(current_page)
                    /\ pc' = "request"
                    /\ UNCHANGED <<checkpoint, has_more, h>>
    /\ UNCHANGED <<seenFile, writtenBefore, now, runs, op, aff, argStart, argEnd,
                   argPageNo, start_ts, end_ts, records, seen_uids>>
    /\ UNCHANGED <<rvars, cvars, pvars>>

\* ---------------------------------------- customer list (Policy A)

Polling == argPageNo = None

\* extract_customer_list up to its for loop
CallCustomerList(a, pageNo) ==
    /\ CanCall
    /\ runs' = runs + 1
    /\ op' = "customer_list"
    /\ aff' = a
    /\ argStart' = None
    /\ argEnd' = None
    /\ argPageNo' = pageNo
    /\ start_ts' = None
    /\ end_ts' = None
    /\ current_page' = IF pageNo # None THEN pageNo ELSE 1
    /\ has_more' = FALSE
    /\ records' = {}
    /\ seen_uids' = LoadSeenUids(seenFile, a)
    /\ pc' = "request"
    /\ h' = [NoHist EXCEPT !.seenBefore = seenFile[a], !.nowAtCall = now]
    /\ writtenBefore' = WrittenSoFar
    /\ bronze' = <<>>
    /\ UNCHANGED <<checkpoint, seenFile, now>>
    /\ UNCHANGED <<rvars, cvars, pvars>>

\* client.get_customer_list returns a page
CustomerRequestOk(page) ==
    /\ pc = "request"
    /\ op = "customer_list"
    /\ records' = page
    /\ h' = [h EXCEPT !.requests = Append(@, Request(current_page, page))]
    /\ pc' = "process"
    /\ UNCHANGED <<checkpoint, seenFile, bronze, writtenBefore, now, runs, op, aff, argStart,
                   argEnd, argPageNo, start_ts, end_ts, current_page, has_more,
                   seen_uids>>
    /\ UNCHANGED <<rvars, cvars, pvars>>

\* the request raises: the except clause of the method logs and re-raises
CustomerRequestFail ==
    /\ pc = "request"
    /\ op = "customer_list"
    /\ h' = [h EXCEPT !.requests = Append(@, Request(current_page, {})),
                      !.reqFailed = TRUE]
    /\ pc' = "raised"
    /\ UNCHANGED <<checkpoint, seenFile, bronze, writtenBefore, now, runs, op, aff, argStart,
                   argEnd, argPageNo, start_ts, end_ts, current_page, has_more,
                   records, seen_uids>>
    /\ UNCHANGED <<rvars, cvars, pvars>>

\* the statements after the for loop, and the return
FinishCustomerList(seen) ==
    /\ seenFile' = IF Polling THEN StoreSeenUids(seenFile, aff, seen) ELSE seenFile
    /\ pc' = "returned"

\* the loop body of extract_customer_list after the request
CustomerProcess(saveOk) ==
    /\ pc = "process"
    /\ op = "customer_list"
    /\ LET new_records == NewRecords(records, seen_uids, argPageNo) IN
       IF records = {} \/ new_records = {}
       THEN /\ FinishCustomerList(seen_uids)
            /\ UNCHANGED <<bronze, current_page, seen_uids, h>>
       ELSE IF ~saveOk
       THEN /\ pc' = "raised"
            /\ h' = [h EXCEPT !.saveFailed = TRUE]
            /\ UNCHANGED <<bronze, current_page, seen_uids, seenFile>>
       ELSE /\ bronze' = SaveToBronze(bronze, aff, op, current_page, new_records)
            /\ UNCHANGED h
            /\ IF ~Polling \/ Cardinality(records) < PageSize
               THEN /\ FinishCustomerList(seen_uids)
                    /\ UNCHANGED <<current_page, seen_uids>>
               ELSE /\ seen_uids' = seen_uids \cup new_records
                    /\ current_page' = NextPage(current_page)
                    /\ pc' = "request"
                    /\ UNCHANGED seenFile
    /\ UNCHANGED <<checkpoint, writtenBefore, now, runs, op, aff, argStart, argEnd, argPageNo,
                   start_ts, end_ts, has_more, records>>
    /\ UNCHANGED <<rvars, cvars, pvars>>

\* ------------------------------------------------------ asset extraction

\* extract_assets up to its while loop: no window is resolved, no file is read
CallAssets(a) ==
    /\ CanCall
    /\ runs' = runs + 1
    /\ op' = "assets"
    /\ aff' = a
    /\ argStart' = None
    /\ argEnd' = None
    /\ argPageNo' = None
    /\ start_ts' = None
    /\ end_ts' = None
    /\ current_page' = 1
    /\ has_more' = TRUE
    /\ records' = {}
    /\ seen_uids' = {}
    /\ pc' = "request"
    /\ h' = [NoHist EXCEPT !.nowAtCall = now]
    /\ writtenBefore' = WrittenSoFar
    /\ bronze' = <<>>
    /\ UNCHANGED <<checkpoint, seenFile, now>>
    /\ UNCHANGED <<rvars, cvars, pvars>>

\* client.get_assets(affiliate_id, client_id, page_no, page_size) returns a page
AssetsRequestOk(page) ==
    /\ pc = "request"
    /\ op = "assets"
    /\ Cardinality(page) = PageSize => current_page < MaxPages
    /\ records' = page
    /\ h' = [h EXCEPT !.requests = Append(@, Request(current_page, page))]
    /\ pc' = "process"
    /\ UNCHANGED <<checkpoint, seenFile, bronze, writtenBefore, now, runs, op, aff, argStart,
                   argEnd, argPageNo, start_ts, end_ts, current_page, has_more,
                   seen_uids>>
    /\ UNCHANGED <<rvars, cvars, pvars>>

\* the request raises: the except clause of the method logs and re-raises
AssetsRequestFail ==
    /\ pc = "request"
    /\ op = "assets"
    /\ h' = [h EXCEPT !.requests = Append(@, Request(current_page, {})),
                      !.reqFailed = TRUE]
    /\ pc' = "raised"
    /\ UNCHANGED <<checkpoint, seenFile, bronze, writtenBefore, now, runs, op, aff, argStart,
                   argEnd, argPageNo, start_ts, end_ts, current_page, has_more,
                   records, seen_uids>>
    /\ UNCHANGED <<rvars, cvars, pvars>>

\* the loop body of extract_assets after the request, and the return
AssetsProcess(saveOk) ==
    /\ pc = "process"
    /\ op = "assets"
    /\ IF records = {}
       THEN /\ pc' = "returned"
            /\ UNCHANGED <<bronze, current_page, h>>
       ELSE IF ~saveOk
       THEN /\ pc' = "raised"
            /\ h' = [h EXCEPT !.saveFailed = TRUE]
            /\ UNCHANGED <<bronze, current_page>>
       ELSE /\ bronze' = SaveToBronze(bronze, aff, op, current_page, records)
            /\ UNCHANGED h
            /\ IF Cardinality(records) < PageSize
               THEN /\ pc' = "returned"
                    /\ UNCHANGED current_page
               ELSE /\ current_page' = NextPage(current_page)
                    /\ pc' = "request"
    /\ UNCHANGED <<checkpoint, seenFile, writtenBefore, now, runs, op, aff, argStart, argEnd,
                   argPageNo, start_ts, end_ts, has_more, records, seen_uids>>
    /\ UNCHANGED <<rvars, cvars, pvars>>

\* asset extraction alone
NextG ==
    \/ Tick
    \/ \E a \in Affiliates : CallAssets(a)
    \/ \E page \in WindowPages : AssetsRequestOk(page)
    \/ AssetsRequestFail
    \/ \E saveOk \in BOOLEAN : AssetsProcess(saveOk)

SpecG == Init /\ [][NextG]_vars

\* ------------------------------------------------------------------ Next
Next ==
    \/ Tick
    \/ \E a \in Affiliates, st \in ArgTimes, et \in ArgTimes : CallTradeActivities(a, st, et)
    \/ \E a \in Affiliates, st \in ArgTimes, et \in ArgTimes : CallDeposits(a, st, et)
    \/ \E page \in WindowPages : WindowRequestOk(page)
    \/ WindowRequestFail
    \/ \E saveOk \in BOOLEAN : TradeProcess(saveOk)
    \/ \E saveOk \in BOOLEAN : DepositProcess(saveOk)
    \/ \E a \in Affiliates, pageNo \in PageNos \cup {None} : CallCustomerList(a, pageNo)
    \/ \E page \in Pages : CustomerRequestOk(page)
    \/ CustomerRequestFail
    \/ \E saveOk \in BOOLEAN : CustomerProcess(saveOk)

Spec == Init /\ [][Next]_vars

\* window extraction alone
NextB ==
    \/ Tick
    \/ \E a \in Affiliates, st \in ArgTimes, et \in ArgTimes : CallTradeActivities(a, st, et)
    \/ \E a \in Affiliates, st \in ArgTimes, et \in ArgTimes : CallDeposits(a, st, et)
    \/ \E page \in WindowPages : WindowRequestOk(page)
    \/ WindowRequestFail
    \/ \E saveOk \in BOOLEAN : TradeProcess(saveOk)
    \/ \E saveOk \in BOOLEAN : DepositProcess(saveOk)

SpecB == Init /\ [][NextB]_vars

\* window extraction that can be cut short from outside
NextBK ==
    \/ NextB
    \/ Interrupt

SpecBK == Init /\ [][NextBK]_vars

\* customer-list extraction alone
NextA ==
    \/ \E a \in Affiliates, pageNo \in PageNos \cup {None} : CallCustomerList(a, pageNo)
    \/ \E page \in Pages : CustomerRequestOk(page)
    \/ CustomerRequestFail
    \/ \E saveOk \in BOOLEAN : CustomerProcess(saveOk)

SpecA == Init /\ [][NextA]_vars

\* both policies, every behaviour using one of them: the customer-list calls touch
\* the seen-uid files only and the window calls the checkpoint files only
NextAB ==
    \/ op # "customer_list" /\ Tick
    \/ \E a \in Affiliates, st \in ArgTimes, et \in ArgTimes :
           op # "customer_list" /\ CallTradeActivities(a, st, et)
    \/ \E a \in Affiliates, st \in ArgTimes, et \in ArgTimes :
           op # "customer_list" /\ CallDeposits(a, st, et)
    \/ \E page \in WindowPages : WindowRequestOk(page)
    \/ WindowRequestFail
    \/ \E saveOk \in BOOLEAN : TradeProcess(saveOk)
    \/ \E saveOk \in BOOLEAN : DepositProcess(saveOk)
    \/ \E a \in Affiliates, pageNo \in PageNos \cup {None} :
           op \notin WindowEndpoints /\ CallCustomerList(a, pageNo)
    \/ \E page \in Pages : CustomerRequestOk(page)
    \/ CustomerRequestFail
    \/ \E saveOk \in BOOLEAN : CustomerProcess(saveOk)

SpecAB == Init /\ [][NextAB]_vars

\* ------------------------------------------------------ rate limiter

InAcquire(t) == rpc[t] \notin {"idle", "done"}

\* a thread calls acquire()
RCall(t) ==
    /\ rpc[t] = "idle"
    /\ rpc' = [rpc EXCEPT ![t] = "lock"]
    /\ overlapped' = (overlapped \/ \E u \in Threads : InAcquire(u))
    /\ UNCHANGED <<tokens, sinceUpdate, lock, sleepLeft, loaded, elapsed, waited>>
    /\ UNCHANGED <<evars, cvars, pvars>>

\* the thread enters the with block, reads the clock and refills the bucket
RLock(t) ==
    /\ rpc[t] = "lock"
    /\ CanLock(lock)
    /\ lock' = t
    /\ tokens' = Refill(tokens, sinceUpdate)
    /\ sinceUpdate' = 0
    /\ rpc' = [rpc EXCEPT ![t] = "check"]
    /\ UNCHANGED <<sleepLeft, loaded, elapsed, waited, overlapped>>
    /\ UNCHANGED <<evars, cvars, pvars>>

\* the test of the while loop: start a sleep of 1 / rate, or leave the loop
RCheck(t) ==
    /\ rpc[t] = "check"
    /\ IF NoToken(tokens)
       THEN /\ rpc' = [rpc EXCEPT ![t] = "sleep"]
            /\ sleepLeft' = [sleepLeft EXCEPT ![t] = TicksPerToken]
            /\ waited' = [waited EXCEPT ![t] = TRUE]
       ELSE /\ rpc' = [rpc EXCEPT ![t] = "load"]
            /\ UNCHANGED <<sleepLeft, waited>>
    /\ UNCHANGED <<tokens, sinceUpdate, lock, loaded, elapsed, overlapped>>
    /\ UNCHANGED <<evars, cvars, pvars>>

\* the sleep is over: read the clock and refill the bucket, then test again
RWake(t) ==
    /\ rpc[t] = "sleep"
    /\ sleepLeft[t] = 0
    /\ tokens' = Refill(tokens, sinceUpdate)
    /\ sinceUpdate' = 0
    /\ rpc' = [rpc EXCEPT ![t] = "check"]
    /\ UNCHANGED <<lock, sleepLeft, loaded, elapsed, waited, overlapped>>
    /\ UNCHANGED <<evars, cvars, pvars>>

\* self.tokens -= 1, the read
RLoad(t) ==
    /\ rpc[t] = "load"
    /\ loaded' = [loaded EXCEPT ![t] = tokens]
    /\ rpc' = [rpc EXCEPT ![t] = "store"]
    /\ UNCHANGED <<tokens, sinceUpdate, lock, sleepLeft, elapsed, waited, overlapped>>
    /\ UNCHANGED <<evars, cvars, pvars>>

\* self.tokens -= 1, the write; the with block ends and acquire() returns
RStore(t) ==
    /\ rpc[t] = "store"
    /\ tokens' = Decrement(loaded[t])
    /\ loaded' = [loaded EXCEPT ![t] = 0]
    /\ lock' = 0
    /\ rpc' = [rpc EXCEPT ![t] = "done"]
    /\ UNCHANGED <<sinceUpdate, sleepLeft, elapsed, waited, overlapped>>
    /\ UNCHANGED <<evars, cvars, pvars>>

\* the clock of the limiter advances by one tick
RTick ==
    /\ sinceUpdate' = Min(Full, sinceUpdate + 1)
    /\ sleepLeft' = [t \in Threads |-> IF sleepLeft[t] > 0 THEN sleepLeft[t] - 1 ELSE 0]
    /\ elapsed' = Min(TicksPerToken, elapsed + 1)
    /\ UNCHANGED <<tokens, lock, rpc, loaded, waited, overlapped>>
    /\ UNCHANGED <<evars, cvars, pvars>>

\* time.time() is set back by one tick: the next reading can be earlier than
\* last_update (kept within one bucket of it, and the bucket within one of empty)
RBack ==
    /\ sinceUpdate > 0 - Full
    /\ tokens > 0 - Full
    /\ sinceUpdate' = sinceUpdate - 1
    /\ UNCHANGED <<tokens, lock, rpc, sleepLeft, loaded, elapsed, waited, overlapped>>
    /\ UNCHANGED <<evars, cvars, pvars>>

\* the steps of one thread inside acquire()
RStep(t) == RLock(t) \/ RCheck(t) \/ RWake(t) \/ RLoad(t) \/ RStore(t)

\* threads calling acquire() on one limiter
NextR ==
    \/ RTick
    \/ \E t \in Threads : RCall(t)
    \/ \E t \in Threads : RLock(t)
    \/ \E t \in Threads : RCheck(t)
    \/ \E t \in Threads : RWake(t)
    \/ \E t \in Threads : RLoad(t)
    \/ \E t \in Threads : RStore(t)

SpecR == Init /\ [][NextR]_vars

\* the same with a clock that can be set back
NextRB ==
    \/ NextR
    \/ RBack

SpecRB == Init /\ [][NextRB]_vars

\* the same with a clock that keeps advancing, threads that keep running and a
\* fair lock
SpecRFair ==
    /\ Init
    /\ [][NextR]_vars
    /\ WF_vars(RTick)
    /\ \A t \in Threads : WF_vars(RStep(t)) /\ SF_vars(RLock(t))

\* ------------------------------------------------------------ client

\* an endpoint method calls _make_request: the affiliate check, then the call of
\* self.rate_limiter.acquire().  Threads are numbered in the order of their calls.
\* Whether calls of acquire() overlap is recorded for the limiter on its own only.
ClientCall(t, a) ==
    /\ cpc[t] = "idle"
    /\ rpc[t] = "idle"
    /\ \A u \in Threads : u < t => cpc[u] # "idle"
    /\ unknownAff' = [unknownAff EXCEPT ![t] = (a = Unconfigured)]
    /\ IF IsConfigured(a)
       THEN /\ cpc' = [cpc EXCEPT ![t] = "acquire"]
            /\ rpc' = [rpc EXCEPT ![t] = "lock"]
       ELSE /\ cpc' = [cpc EXCEPT ![t] = "invalid"]
            /\ UNCHANGED rpc
    /\ UNCHANGED <<tokens, sinceUpdate, lock, sleepLeft, loaded, elapsed, waited, overlapped>>
    /\ UNCHANGED <<httpSent, cresp>>
    /\ UNCHANGED <<evars, pvars>>

\* acquire() has returned: sign, then requests.get or requests.post, which returns
\* with the response r: raise_for_status, response.json(), APIResponse, and the
\* endpoint method's list of records
CSend(t, r) ==
    /\ cpc[t] = "acquire"
    /\ CanSend(rpc[t])
    /\ httpSent' = [httpSent EXCEPT ![t] = @ + 1]
    /\ cresp' = [cresp EXCEPT ![t] = r]
    /\ cpc' = [cpc EXCEPT ![t] = IF Raises(r) THEN "raised" ELSE "returned"]
    /\ UNCHANGED unknownAff
    /\ UNCHANGED <<evars, rvars, pvars>>

\* threads making client requests through one client and its limiter
NextC ==
    \/ RTick
    \/ \E t \in Threads, a \in Affiliates \cup {Unconfigured} : ClientCall(t, a)
    \/ \E t \in Threads : RLock(t)
    \/ \E t \in Threads : RCheck(t)
    \/ \E t \in Threads : RWake(t)
    \/ \E t \in Threads : RLoad(t)
    \/ \E t \in Threads : RStore(t)
    \/ \E t \in Threads, r \in Responses : CSend(t, r)

SpecC == Init /\ [][NextC]_vars

\* ---------------------------------------------------- record parsing

\* an endpoint method receives the envelope of a successful request and builds
\* its typed records
GetRecords(m, data) ==
    /\ dmethod = "none"
    /\ dmethod' = m
    /\ payload' = data
    /\ dresult' = ParseRecords(data)
    /\ UNCHANGED restD

\* one call of an endpoint method, with any data array in the response
CallEndpoint ==
    /\ dmethod = "none"
    /\ \E m \in EndpointMethods, data \in DataArrays : GetRecords(m, data)

NextD == CallEndpoint

SpecD == Init /\ [][NextD]_vars

\* ---------------------------------------------------- request signing

\* _make_request from the body to the dispatch: body, _sign_request, requests
SignAndSend(m, params) ==
    /\ smethod' = m
    /\ sparams' = params
    /\ signedBody' = SignedBody(m, RequestBody(m, params))
    /\ sentBody' = TransmittedBody(m, params)
    /\ UNCHANGED restS

\* one request, of any method and params
MakeRequest ==
    /\ smethod = "none"
    /\ \E m \in Methods, params \in ParamDicts \cup {NoParams} : SignAndSend(m, params)

NextS == MakeRequest

SpecS == Init /\ [][NextS]_vars

\* ------------------------------------------- run_etl and the batch driver

\* the entry of run_etl
EnterRunEtl(a, cid, st, et) ==
    /\ oaff' = a
    /\ oclient' = cid
    /\ ostart' = st
    /\ oend' = et
    /\ calls' = <<>>
    /\ oerror' = NoError
    /\ runError' = NoError
    /\ cpWritten' = {}
    /\ ostage' = FirstStage(cid)

\* a caller other than the driver calls run_etl
RunEtl ==
    /\ ostage = "idle"
    /\ dstatus = "off"
    /\ \E a \in Affiliates, cid \in ClientIds \cup {NoClient}, st \in ArgTimes,
          et \in ArgTimes : EnterRunEtl(a, cid, st, et)
    /\ UNCHANGED <<dstatus, dconfig, dpos, dinvoked>>
    /\ UNCHANGED restO

\* an invocation has returned or raised: the next statement of run_etl
AfterInvocation(stage, outcome) ==
    /\ calls' = Append(calls, stage)
    /\ ostage' = StageAfter(stage, outcome)
    /\ oerror' = IF outcome = "ok" THEN oerror ELSE [kind |-> outcome, where |-> stage]
    /\ runError' = IF ostage' = "failed" THEN Propagate(oerror') ELSE runError

\* self.extract_customer_list(affiliate_id, page_no=..., page_size=...)
ExtractCustomers(outcome) ==
    /\ ostage = "customer_list"
    /\ AfterInvocation("customer_list", outcome)
    /\ UNCHANGED <<oaff, oclient, ostart, oend, cpWritten, dstatus, dconfig, dpos, dinvoked>>
    /\ UNCHANGED restO

\* a window extraction that returns in default mode has written its checkpoint
WindowWrites(e, outcome) ==
    IF outcome = "ok" /\ IsDefaultRun(ostart, oend)
    THEN cpWritten \cup {<<oaff, e>>} ELSE cpWritten

\* self.extract_trade_activities(..., page_no=page_no, ...): the method has no
\* parameter page_no, so the call raises TypeError before the method runs; with
\* the parameter list of extract_deposits it is accepted
ExtractTrades(accepted, outcome) ==
    /\ ostage = "trade_activities"
    /\ IF accepted
       THEN /\ AfterInvocation("trade_activities", outcome)
            /\ cpWritten' = WindowWrites("trade_activities", outcome)
       ELSE /\ ostage' = "failed"
            /\ oerror' = [kind |-> "TypeError", where |-> "run_etl"]
            /\ runError' = Propagate(oerror')
            /\ UNCHANGED <<calls, cpWritten>>
    /\ UNCHANGED <<oaff, oclient, ostart, oend, dstatus, dconfig, dpos, dinvoked>>
    /\ UNCHANGED restO

\* self.extract_deposits(...)
ExtractDeposits(outcome) ==
    /\ ostage = "deposits"
    /\ AfterInvocation("deposits", outcome)
    /\ cpWritten' = WindowWrites("deposits", outcome)
    /\ UNCHANGED <<oaff, oclient, ostart, oend, dstatus, dconfig, dpos, dinvoked>>
    /\ UNCHANGED restO

\* self.extract_assets(...)
ExtractAssets(outcome) ==
    /\ ostage = "assets"
    /\ AfterInvocation("assets", outcome)
    /\ UNCHANGED <<oaff, oclient, ostart, oend, cpWritten, dstatus, dconfig, dpos, dinvoked>>
    /\ UNCHANGED restO

\* run_etl called on its own
NextO ==
    \/ RunEtl
    \/ \E outcome \in Outcomes : ExtractCustomers(outcome)
    \/ \E accepted \in BOOLEAN, outcome \in Outcomes : ExtractTrades(accepted, outcome)
    \/ \E outcome \in Outcomes : ExtractDeposits(outcome)
    \/ \E outcome \in Outcomes : ExtractAssets(outcome)

SpecO == Init /\ [][NextO]_vars

\* the driver calls etl.run_etl(affiliate_id) for the affiliate at position pos
DriverInvoke(cfg, pos) ==
    /\ dpos' = pos
    /\ dinvoked' = dinvoked \cup {cfg[pos]}
    /\ EnterRunEtl(cfg[pos], NoClient, None, None)

\* the driver leaves the loop, or leaves main by the except clause
DriverEnd(status) ==
    /\ dstatus' = status
    /\ UNCHANGED <<ostage, oaff, oclient, ostart, oend, calls, oerror, runError,
                   cpWritten, dpos, dinvoked>>

\* main: the configuration is loaded and the loop starts
DriverStart(cfg) ==
    /\ dstatus = "off"
    /\ ostage = "idle"
    /\ dconfig' = cfg
    /\ IF cfg = <<>>
       THEN DriverEnd("done")
       ELSE dstatus' = "loop" /\ DriverInvoke(cfg, 1)
    /\ UNCHANGED restO

\* run_etl has ended: the next affiliate, the end of the loop, or the except
\* clause around the loop
DriverStep ==
    /\ dstatus = "loop"
    /\ ostage \in {"done", "failed"}
    /\ LET after == IF ostage = "failed" THEN AfterRunFailed
                    ELSE IF dpos < Len(dconfig) THEN "loop" ELSE "done" IN
       IF after = "loop"
       THEN dstatus' = "loop" /\ DriverInvoke(dconfig, dpos + 1)
       ELSE DriverEnd(after)
    /\ UNCHANGED dconfig
    /\ UNCHANGED restO

\* the batch driver
NextV ==
    \/ \E cfg \in AffiliateLists : DriverStart(cfg)
    \/ DriverStep
    \/ \E outcome \in Outcomes : ExtractCustomers(outcome)
    \/ \E accepted \in BOOLEAN, outcome \in Outcomes : ExtractTrades(accepted, outcome)
    \/ \E outcome \in Outcomes : ExtractDeposits(outcome)
    \/ \E outcome \in Outcomes : ExtractAssets(outcome)

SpecV == Init /\ [][NextV]_vars

\* ------------------------------------------------ the bronze landing zone

\* the clock passes
FTick ==
    /\ ftime + 1 \in ClockTimes
    /\ ftime' = ftime + 1
    /\ UNCHANGED <<fday, files, fsaved>>
    /\ UNCHANGED restF

\* BitgetETL.__init__ of a run: self.timestamp = datetime.now()
NewEtl(r) ==
    /\ fday[r] = None
    /\ fday' = [fday EXCEPT ![r] = DatePath(ftime)]
    /\ UNCHANGED <<ftime, files, fsaved>>
    /\ UNCHANGED restF

\* _save_to_bronze(records, endpoint, affiliate_id, page): the file of the page is
\* written, or the call raises before it opens the file
WriteBatch(r, recs, e, a, page, ok) ==
    /\ LET path == BatchPath(a, e, fday[r], page) IN
       /\ files' = IF ok THEN WriteFile(files, path, recs) ELSE files
       /\ fsaved' = [fsaved EXCEPT ![r] =
                        [status |-> IF ok THEN "stored" ELSE "raised",
                         path |-> path, recs |-> recs]]
    /\ UNCHANGED <<ftime, fday>>
    /\ UNCHANGED restF

\* a run saves a batch
SaveBatch(r) ==
    /\ fday[r] # None
    /\ fsaved[r].status = "none"
    /\ \E recs \in Batches, e \in EndpointMethods, a \in Affiliates, page \in PageNos,
          ok \in BOOLEAN : WriteBatch(r, recs, e, a, page, ok)

NextF ==
    \/ FTick
    \/ \E r \in SaverRuns : NewEtl(r)
    \/ \E r \in SaverRuns : SaveBatch(r)

SpecF == Init /\ [][NextF]_vars

\* ------------------------------------------- the bronze table loader driver

\* main: get_affiliate_ids(); sys.exit(1) when there is none
BStart ==
    /\ bpc = "start"
    /\ \E ids \in AffiliateLists :
          /\ bqueue' = ids
          /\ bpc' = IF ids = <<>> THEN "failed" ELSE "create"
    /\ UNCHANGED <<bstage, bdb, bloaded>>
    /\ UNCHANGED restB

\* process_affiliate: loader.create_*_table() of the table in turn
BCreate ==
    /\ bpc = "create"
    /\ LET t == TableOrder[bstage] IN
       bdb' = [bdb EXCEPT ![t] = CreateTable(bdb[t])]
    /\ bpc' = "load"
    /\ UNCHANGED <<bqueue, bstage, bloaded>>
    /\ UNCHANGED restB

\* process_affiliate: list(extractor.extract_*(days_back)) and loader.load_*(rows);
\* after the last table main goes on to the next affiliate or ends
BLoad ==
    /\ bpc = "load"
    /\ LET a == Head(bqueue)
           t == TableOrder[bstage] IN
       \E data \in ExtractLists(a) :
          /\ bdb' = [bdb EXCEPT ![t] = InsertAll(t, bdb[t], data, 1)]
          /\ bloaded' = IF data = <<>> THEN bloaded ELSE bloaded \cup {<<t, a>>}
    /\ IF bstage < Len(TableOrder)
       THEN /\ bstage' = bstage + 1
            /\ bpc' = "create"
            /\ UNCHANGED bqueue
       ELSE /\ bstage' = 1
            /\ bqueue' = Tail(bqueue)
            /\ bpc' = IF Tail(bqueue) = <<>> THEN "ended" ELSE "create"
    /\ UNCHANGED restB

\* a statement of process_affiliate raises DatabaseError: main logs it and exits
BRaise ==
    /\ bpc \in {"create", "load"}
    /\ bpc' = "failed"
    /\ UNCHANGED <<bqueue, bstage, bdb, bloaded>>
    /\ UNCHANGED restB

NextBZ ==
    \/ BStart
    \/ BCreate
    \/ BLoad
    \/ BRaise

SpecBZ == Init /\ [][NextBZ]_vars

\* ------------------------------------------- the relational bronze sink

\* load_data(data, table_name, columns) into the table as it is
LoadData(t, data) ==
    /\ LET tb == InsertAll(t, [rows |-> lrows, serial |-> lserial], data, 1) IN
       /\ lrows' = tb.rows
       /\ lserial' = tb.serial
    /\ ltable' = t
    /\ ldata' = data

\* the first load into a table created empty
LoadFirst ==
    /\ lphase = "empty"
    /\ \E t \in Tables, data \in LoadLists : LoadData(t, data)
    /\ lphase' = "once"
    /\ lrowsOnce' = lrows'
    /\ UNCHANGED restL

\* the same list is loaded again
LoadAgain ==
    /\ lphase = "once"
    /\ LoadData(ltable, ldata)
    /\ lphase' = "twice"
    /\ UNCHANGED lrowsOnce
    /\ UNCHANGED restL

NextL == LoadFirst \/ LoadAgain

SpecL == Init /\ [][NextL]_vars

\* ------------------------------------------- the checkpoint file store

\* _save_last_timestamp(affiliate_id, endpoint, timestamp) is called
SaveEnter(a, e, ts) ==
    /\ ksave' = [a |-> a, e |-> e, ts |-> ts, before |-> kfile[a][e]]
    /\ kpc' = "entered"
    /\ kloaded' = NoLoad
    /\ UNCHANGED kfile

SaveCall ==
    /\ kpc = "idle"
    /\ \E a \in Affiliates, e \in WindowEndpoints, ts \in SavedTimes : SaveEnter(a, e, ts)
    /\ UNCHANGED restK

\* open(checkpoint_file, "w"): the file is created or truncated
SaveOpen ==
    /\ kpc = "entered"
    /\ kfile' = [kfile EXCEPT ![ksave.a][ksave.e] = [exists |-> TRUE, text |-> <<>>]]
    /\ kpc' = "opened"
    /\ UNCHANGED <<ksave, kloaded>>
    /\ UNCHANGED restK

\* f.write(str(timestamp)) and the close of the with block
SaveWrite ==
    /\ kpc = "opened"
    /\ kfile' = [kfile EXCEPT ![ksave.a][ksave.e] =
                     [exists |-> TRUE, text |-> StrInt(ksave.ts)]]
    /\ kpc' = "written"
    /\ UNCHANGED <<ksave, kloaded>>
    /\ UNCHANGED restK

\* _save_last_timestamp returns
SaveReturn ==
    /\ kpc = "written"
    /\ kpc' = "idle"
    /\ UNCHANGED <<kfile, ksave, kloaded>>
    /\ UNCHANGED restK

\* the process stops during _save_last_timestamp
SaveStop ==
    /\ kpc \in {"entered", "opened", "written"}
    /\ kpc' = "stopped"
    /\ UNCHANGED <<kfile, ksave, kloaded>>
    /\ UNCHANGED restK

\* a later process calls _load_last_timestamp for the (affiliate, endpoint)
LoadAfterStop ==
    /\ kpc = "stopped"
    /\ kloaded = NoLoad
    /\ kloaded' = LoadFile(kfile[ksave.a][ksave.e], now)
    /\ UNCHANGED <<kfile, kpc, ksave>>
    /\ UNCHANGED restK

\* the later process goes on
Restart ==
    /\ kpc = "stopped"
    /\ kloaded # NoLoad
    /\ kpc' = "idle"
    /\ UNCHANGED <<kfile, ksave, kloaded>>
    /\ UNCHANGED restK

NextK ==
    \/ SaveCall
    \/ SaveOpen
    \/ SaveWrite
    \/ SaveReturn
    \/ SaveStop
    \/ LoadAfterStop
    \/ Restart

SpecK == Init /\ [][NextK]_vars

\* ------------------------------------- concurrent extraction of two affiliates

\* the content of a file, or the given value when the file does not exist
ReadFile(fs, name, absent) == IF name \in DOMAIN fs THEN fs[name] ELSE absent

\* the checkpoint files as _load_last_timestamp finds them
CheckpointFiles ==
    [a \in Affiliates |->
        [e \in WindowEndpoints |-> ReadFile(xcp, CheckpointName(a, e), None)]]

\* the seen-uid files as _load_seen_uids finds them: no file gives the empty set
SeenFiles == [a \in Affiliates |-> ReadFile(xseen, SeenName(a), {})]

\* the locals of a thread are gone when its extraction has ended
XEnd(a, how) ==
    /\ xpc' = [xpc EXCEPT ![a] = how]
    /\ xop' = [xop EXCEPT ![a] = "none"]
    /\ xpage' = [xpage EXCEPT ![a] = 0]
    /\ xrecords' = [xrecords EXCEPT ![a] = {}]
    /\ xlocal' = [xlocal EXCEPT ![a] = {}]
    /\ xend' = [xend EXCEPT ![a] = None]

InExtraction(a) == xpc[a] \in {"acquire", "request", "process", "commit"}

\* the thread of affiliate a calls an extraction in default mode: the statements up
\* to the first request, which read the seen-uid file or the checkpoint file
XCall(a, e) ==
    /\ xpc[a] \in {"idle", "returned", "raised"}
    /\ xruns < MaxRuns
    /\ xruns' = xruns + 1
    /\ xop' = [xop EXCEPT ![a] = e]
    /\ xpage' = [xpage EXCEPT ![a] = 1]
    /\ xrecords' = [xrecords EXCEPT ![a] = {}]
    /\ xlocal' = [xlocal EXCEPT ![a] =
                     IF e = "customer_list" THEN LoadSeenUids(SeenFiles, a) ELSE {}]
    /\ xend' = [xend EXCEPT ![a] =
                   IF e = "customer_list" THEN None
                   ELSE ResolveEnd(None, ResolveStart(None, CheckpointFiles, a, e, now))]
    /\ xpc' = [xpc EXCEPT ![a] = "acquire"]
    /\ xoverlap' = (xoverlap \/ \E b \in Affiliates \ {a} : InExtraction(b))
    /\ UNCHANGED <<xcp, xseen, xtokens>>
    /\ UNCHANGED restX

\* _make_request: self.rate_limiter.acquire() returns with a token of the one bucket
XAcquire(a) ==
    /\ xpc[a] = "acquire"
    /\ xtokens > 0
    /\ xtokens' = xtokens - 1
    /\ xpc' = [xpc EXCEPT ![a] = "request"]
    /\ UNCHANGED <<xcp, xseen, xruns, xop, xpage, xrecords, xlocal, xend, xoverlap>>
    /\ UNCHANGED restX

\* time passes and the bucket gains a token
XRefill ==
    /\ xtokens < Burst
    /\ xtokens' = xtokens + 1
    /\ UNCHANGED <<xcp, xseen, xruns, xpc, xop, xpage, xrecords, xlocal, xend, xoverlap>>
    /\ UNCHANGED restX

\* the request of a page returns
XResponse(a, page) ==
    /\ xpc[a] = "request"
    /\ Cardinality(page) = PageSize => xpage[a] < MaxPages
    /\ xrecords' = [xrecords EXCEPT ![a] = page]
    /\ xpc' = [xpc EXCEPT ![a] = "process"]
    /\ UNCHANGED <<xcp, xseen, xtokens, xruns, xop, xpage, xlocal, xend, xoverlap>>
    /\ UNCHANGED restX

\* the request raises: extract_customer_list re-raises, a window extraction logs
\* the error and leaves its loop
XRequestFail(a) ==
    /\ xpc[a] = "request"
    /\ IF xop[a] = "customer_list"
       THEN XEnd(a, "raised")
       ELSE /\ xpc' = [xpc EXCEPT ![a] = "commit"]
            /\ UNCHANGED <<xop, xpage, xrecords, xlocal, xend>>
    /\ UNCHANGED <<xcp, xseen, xtokens, xruns, xoverlap>>
    /\ UNCHANGED restX

\* the loop body after the request: the page is saved to bronze, and the loop goes
\* on or ends
XProcess(a, saveOk) ==
    /\ xpc[a] = "process"
    /\ LET recs == xrecords[a]
           new_records == IF xop[a] = "customer_list" THEN NewRecords(recs, xlocal[a], None)
                          ELSE recs IN
       IF recs = {} \/ new_records = {}
       THEN /\ xpc' = [xpc EXCEPT ![a] = "commit"]
            /\ UNCHANGED <<xop, xpage, xrecords, xlocal, xend>>
       ELSE IF ~saveOk /\ xop[a] = "customer_list"
       THEN XEnd(a, "raised")
       ELSE IF ~saveOk \/ Cardinality(recs) < PageSize
       THEN /\ xpc' = [xpc EXCEPT ![a] = "commit"]
            /\ UNCHANGED <<xop, xpage, xrecords, xlocal, xend>>
       ELSE /\ xlocal' = [xlocal EXCEPT ![a] =
                             IF xop[a] = "customer_list" THEN @ \cup new_records ELSE @]
            /\ xpage' = [xpage EXCEPT ![a] = NextPage(@)]
            /\ xpc' = [xpc EXCEPT ![a] = "acquire"]
            /\ UNCHANGED <<xop, xrecords, xend>>
    /\ UNCHANGED <<xcp, xseen, xtokens, xruns, xoverlap>>
    /\ UNCHANGED restX

\* the statements after the loop: _store_seen_uids or _save_last_timestamp writes
\* the file named after the affiliate, and the extraction returns
XCommit(a) ==
    /\ xpc[a] = "commit"
    /\ IF xop[a] = "customer_list"
       THEN /\ xseen' = WriteFile(xseen, SeenName(a), xlocal[a])
            /\ UNCHANGED xcp
       ELSE /\ xcp' = WriteFile(xcp, CheckpointName(a, xop[a]), xend[a])
            /\ UNCHANGED xseen
    /\ XEnd(a, "returned")
    /\ UNCHANGED <<xtokens, xruns, xoverlap>>
    /\ UNCHANGED restX

NextX ==
    \/ \E a \in Affiliates, e \in WindowEndpoints \cup {"customer_list"} : XCall(a, e)
    \/ \E a \in Affiliates : XAcquire(a)
    \/ XRefill
    \/ \E a \in Affiliates, page \in WindowPages : XResponse(a, page)
    \/ \E a \in Affiliates : XRequestFail(a)
    \/ \E a \in Affiliates, saveOk \in BOOLEAN : XProcess(a, saveOk)
    \/ \E a \in Affiliates : XCommit(a)

SpecX == Init /\ [][NextX]_vars

\* --------------------------------- the two window extractions side by side

\* both methods are called with the same stored checkpoint and arguments
MCall(cpv, st, et) ==
    /\ mt' = WindowEntry("trade_activities", cpv, st, et, now)
    /\ md' = WindowEntry("deposits", cpv, st, et, now)

MStart ==
    /\ mt.pc # "loop"
    /\ md.pc # "loop"
    /\ \E cpv \in {None, TimeWindow}, st \in ArgTimes, et \in ArgTimes : MCall(cpv, st, et)
    /\ UNCHANGED restM

\* each method that is in its loop makes one pass with the same outcome
MPass(out) ==
    /\ out.n = PageSize
           => \/ mt.pc = "loop" /\ mt.current_page < MaxPages
              \/ md.pc = "loop" /\ md.current_page < MaxPages
    /\ mt' = IF mt.pc = "loop" THEN AfterLoop(TradeBody(mt, out)) ELSE mt
    /\ md' = IF md.pc = "loop" THEN AfterLoop(DepositBody(md, out)) ELSE md

MStep ==
    /\ mt.pc = "loop" \/ md.pc = "loop"
    /\ \E out \in PageOutcomes : MPass(out)
    /\ UNCHANGED restM

NextM ==
    \/ MStart
    \/ MStep

SpecM == Init /\ [][NextM]_vars

TypeOK ==
    /\ pc \in {"idle", "request", "process", "returned", "raised", "killed"}
    /\ runs \in 0..MaxRuns
    /\ \A a \in Affiliates : seenFile[a] \subseteq Uids

\* ------------------------------------------------------------ properties

WindowCall == op \in WindowEndpoints
BothDefaulted == argStart = None /\ argEnd = None
PollingCall == op = "customer_list" /\ argPageNo = None
Finished == pc = "returned"
NoFailure == ~h.reqFailed /\ ~h.saveFailed

\* C1: a default-mode trade or deposit extraction in which a page request raised
\* leaves the checkpoint of (affiliate, endpoint) at its value before the call.
C1_RequestErrorKeepsCheckpoint ==
    (Finished /\ WindowCall /\ BothDefaulted /\ h.reqFailed)
        => checkpoint[aff][op] = h.cpBefore

\* C2: a default-mode trade or deposit extraction in which _save_to_bronze failed
\* for a page leaves the checkpoint of (affiliate, endpoint) unchanged.
C2_SaveErrorKeepsCheckpoint ==
    (Finished /\ WindowCall /\ BothDefaulted /\ h.saveFailed)
        => checkpoint[aff][op] = h.cpBefore

\* C3: after a default-mode trade or deposit extraction in which every request and
\* every save succeeded, the checkpoint of (affiliate, endpoint) is the end_time
\* that every page request of the run carried.
C3_CheckpointIsEndSent ==
    (Finished /\ WindowCall /\ BothDefaulted /\ NoFailure)
        => /\ Len(h.requests) >= 1
           /\ \A i \in 1..Len(h.requests) : h.requests[i].end = checkpoint[aff][op]

\* C3 witness: a default-mode deposit run of two saved pages has set the checkpoint
C3_Witness ==
    /\ Finished /\ op = "deposits" /\ BothDefaulted /\ NoFailure
    /\ Len(h.requests) = 2
    /\ Len(bronze) = 2
    /\ checkpoint[aff][op] = end_ts
    /\ checkpoint[aff][op] # h.cpBefore

\* the window the claim C4 describes
ClaimedStart ==
    IF argStart # None THEN argStart
    ELSE IF h.cpBefore # None THEN h.cpBefore
    ELSE h.nowAtCall - LookbackMs

ClaimedEnd(start) == IF argEnd # None THEN argEnd ELSE start + TimeWindow

\* C4: every page request of a trade or deposit extraction carries the supplied
\* start_time if one was supplied (0 included), else the checkpoint, else now minus
\* ten minutes; the supplied end_time if one was supplied, else start plus the
\* window; and start < end when both were defaulted.
C4_WindowResolution ==
    WindowCall =>
        \A i \in 1..Len(h.requests) :
            /\ h.requests[i].start = ClaimedStart
            /\ h.requests[i].end = ClaimedEnd(h.requests[i].start)
            /\ BothDefaulted => h.requests[i].start < h.requests[i].end

\* C5: no step of a trade or deposit extraction that was given start_time or
\* end_time (or both) changes the checkpoint of any (affiliate, endpoint).
C5_BackfillKeepsCheckpoints ==
    [][(op' \in WindowEndpoints /\ ~(argStart' = None /\ argEnd' = None))
           => checkpoint' = checkpoint]_vars

\* C5 witness: a backfill with start_time 0 that saved a page and then failed has
\* returned with a checkpoint present and unchanged
C5_Witness ==
    /\ Finished /\ WindowCall
    /\ argStart = 0 /\ argEnd = None
    /\ h.reqFailed /\ Len(bronze) = 1
    /\ h.cpBefore # None
    /\ checkpoint[aff][op] = h.cpBefore

\* C6: no step lowers or removes a stored checkpoint.
C6_CheckpointMonotone ==
    [][\A a \in Affiliates, e \in WindowEndpoints :
           checkpoint[a][e] # None
               => checkpoint'[a][e] # None /\ checkpoint'[a][e] >= checkpoint[a][e]]_vars

\* C6 witness: a run with a failed request has moved an existing checkpoint forward
C6_Witness ==
    /\ Finished /\ WindowCall
    /\ h.cpBefore # None
    /\ h.reqFailed
    /\ checkpoint[aff][op] > h.cpBefore

\* C7: a default-mode run that follows a default-mode run for the same
\* (affiliate, endpoint) in which a page request failed sends page 1 with the
\* start_time of the failed run.
C7_RetrySameWindow ==
    (WindowCall /\ BothDefaulted /\ h.prevFailed /\ Len(h.requests) >= 1)
        => h.requests[1].start = h.prevStart

\* C8: in polling mode, processing a fetched page whose every uid is in the seen
\* set stores nothing, sends no further request and ends the run.
C8_AllSeenStops ==
    [][(pc = "process" /\ PollingCall /\ records \subseteq seen_uids)
           => /\ bronze' = bronze
              /\ h'.requests = h.requests
              /\ pc' = "returned"]_vars

\* C8 witness: a polling run whose first page was non-empty and all seen has
\* returned without storing a batch
C8_Witness ==
    /\ Finished /\ PollingCall
    /\ records # {}
    /\ records \subseteq h.seenBefore
    /\ Len(h.requests) = 1
    /\ bronze = <<>>

\* C9: after a polling run that returned, the seen-uid file holds the set loaded at
\* the start of the run and the uid of every record the run stored.
C9_SeenGrowsByWritten ==
    (Finished /\ PollingCall)
        => seenFile[aff] = h.seenBefore \cup IdsOf(bronze)

\* C10: a polling run stores no uid that an earlier polling run for the same
\* affiliate stored.
C10_NoDuplicateAcrossRuns ==
    PollingCall => IdsOf(bronze) \cap writtenBefore[aff] = {}

C12_StopsAtEmptyPage ==
    (Finished /\ PollingCall /\ NoFailure)
        => (records = {} \/ records \subseteq seen_uids)

\* the acquire() calls that have returned
Returned == {t \in Threads : rpc[t] = "done"}

\* C13: from a full bucket, the N-th acquire() to return while no time has elapsed,
\* N <= Burst, has not waited and leaves Burst - N tokens; the call that returns
\* after Burst others returns only when the clock has advanced by the time of one
\* token.
C13_BurstThenWait ==
    [][\A t \in Threads :
           (rpc[t] = "store" /\ rpc'[t] = "done")
               => LET n == Cardinality(Returned) + 1 IN
                  /\ (elapsed = 0 /\ n <= Burst)
                         => /\ ~waited[t]
                            /\ tokens' = (Burst - n) * TicksPerToken
                  /\ n > Burst => elapsed >= TicksPerToken]_vars

\* C13 witness: Burst + 1 calls have returned and exactly one of them has waited
C13_Witness ==
    /\ Returned = Threads
    /\ Cardinality({t \in Threads : waited[t]}) = 1
    /\ elapsed >= TicksPerToken

\* C14: when K <= Burst threads have called acquire() concurrently and all have
\* returned with no time elapsed, the bucket holds Burst - K tokens.
C14_NoLostDecrement ==
    (elapsed = 0 /\ (\A t \in Threads : ~InAcquire(t)) /\ Cardinality(Returned) <= Burst)
        => tokens = (Burst - Cardinality(Returned)) * TicksPerToken

\* C14 witness: Burst threads whose calls overlapped have returned with no time
\* elapsed and the bucket is empty
C14_Witness ==
    /\ elapsed = 0
    /\ overlapped
    /\ \A t \in Threads : ~InAcquire(t)
    /\ Cardinality(Returned) = Burst
    /\ tokens = 0

\* C15: a thread that sleeps inside acquire() does not hold the lock of the limiter.
C15_SleepsWithoutLock ==
    \A t \in Threads : rpc[t] = "sleep" => lock # t

\* C16: with a clock that keeps advancing and a fair lock, every acquire() that was
\* called returns.
C16_AcquireReturns ==
    \A t \in Threads : InAcquire(t) ~> (rpc[t] = "done")

\* C16 witness: every thread has returned from acquire(), calls have overlapped and
\* one of them had to sleep
C16_Witness ==
    /\ Returned = Threads
    /\ overlapped
    /\ \E t \in Threads : waited[t]

\* the client requests that have ended, by return or by raise
Ended(t) == cpc[t] \in {"returned", "raised"}

\* the HTTP call failed: a status outside 2xx, or a body that does not parse
HttpFailed(r) == r.status \notin 200..299 \/ ~r.json

\* C17: a request for an affiliate id that is not configured ends in the error of
\* the affiliate check without entering acquire() and without an HTTP request, and
\* while only such requests have been made the bucket is full and the lock free.
C17_UnknownAffiliateFails ==
    /\ \A t \in Threads :
           unknownAff[t] => cpc[t] = "invalid" /\ rpc[t] = "idle" /\ httpSent[t] = 0
    /\ (\A t \in Threads : cpc[t] \in {"idle", "invalid"}) => tokens = Full /\ lock = 0

\* C17 witness: every thread has made a request for the unconfigured affiliate
C17_Witness ==
    /\ \A t \in Threads : unknownAff[t] /\ cpc[t] = "invalid"
    /\ tokens = Full

\* C18: a request has dispatched at most one HTTP request, and only after its own
\* acquire() has returned; the HTTP requests dispatched are at most as many as the
\* acquire() calls that have returned.
C18_SendAfterAcquire ==
    /\ \A t \in Threads : httpSent[t] <= 1 /\ (httpSent[t] = 1 => rpc[t] = "done")
    /\ Cardinality({t \in Threads : httpSent[t] > 0}) <= Cardinality(Returned)

\* C18 witness: a request whose acquire() had to sleep has dispatched its HTTP
\* request, as have Burst requests before it
C18_Witness ==
    /\ \E t \in Threads : waited[t] /\ httpSent[t] = 1
    /\ Cardinality({t \in Threads : httpSent[t] = 1}) = Burst + 1

C20_AppErrorRaises ==
    \A t \in Threads :
        (Ended(t) /\ cresp[t].status = 200 /\ cresp[t].json /\ cresp[t].code # "00000")
            => cpc[t] = "raised"

\* the ids of the entries of a data array that the record model accepts, in order
RECURSIVE ValidIds(_)
ValidIds(data) ==
    IF data = <<>> THEN <<>>
    ELSE IF Head(data).defect = "none" THEN <<Head(data).id>> \o ValidIds(Tail(data))
    ELSE ValidIds(Tail(data))

\* C21: an endpoint method returns the valid entries of the data array as records,
\* in order, and does not fail, whatever invalid entries the array holds.
C21_InvalidEntriesDropped ==
    dmethod # "none"
        => dresult.kind = "list" /\ dresult.records = ValidIds(payload)

\* C22: for a POST with params the body in the signed message is the body that is
\* transmitted; for another method, or without params, the signed body is empty.
C22_SignedBodyIsSentBody ==
    smethod # "none" =>
        IF smethod \in {"POST", "post"} /\ sparams.given /\ DOMAIN sparams.items # {}
        THEN signedBody = sentBody
        ELSE signedBody = <<>>

\* the extractions a run_etl with this client_id invokes when none of them raises
ExpectedCalls(cid) ==
    IF cid = NoClient THEN <<"customer_list", "trade_activities", "deposits", "assets">>
    ELSE <<"trade_activities", "deposits", "assets">>

RunEnded == ostage \in {"done", "failed"}

\* C23: a run_etl in which no extraction raised has invoked the customer list (only
\* when client_id is None), trades, deposits and assets once each, in that order.
C23_InvokesEachOnceInOrder ==
    (RunEnded /\ oerror.where \in {"none", "run_etl"})
        => ostage = "done" /\ calls = ExpectedCalls(oclient)

\* C24: when extract_customer_list raised, run_etl has raised that same error, has
\* invoked no other extraction and has written no checkpoint.
C24_CustomerListErrorEndsRun ==
    oerror.where = "customer_list"
        => /\ ostage = "failed"
           /\ runError = oerror
           /\ calls = <<"customer_list">>
           /\ cpWritten = {}

C24_Witness ==
    /\ ostage = "failed"
    /\ oerror.where = "customer_list"
    /\ runError.kind = "RequestException"
    /\ calls = <<"customer_list">>

\* C25: a trade or deposit extraction in which a page request failed ends by
\* raising, not by returning.
C25_RequestFailureRaises ==
    (WindowCall /\ h.reqFailed /\ pc \in {"returned", "raised"}) => pc = "raised"

\* C26: when the batch driver has ended, it has invoked run_etl for every affiliate
\* of config.affiliates, whether or not an earlier run failed.
C26_DriverReachesEveryAffiliate ==
    dstatus \in {"done", "failed"}
        => dinvoked = {dconfig[i] : i \in 1..Len(dconfig)}

\* C27: a batch that a run has stored is still in its file, whatever later runs
\* have saved for the same day, affiliate, endpoint and page.
C27_EarlierBatchKept ==
    \A r \in SaverRuns :
        fsaved[r].status = "stored"
            => fsaved[r].path \in DOMAIN files /\ files[fsaved[r].path] = fsaved[r].recs

\* C28: loading the same list a second time leaves the rows of the table as they
\* were after the first load.
C28_SecondLoadAddsNoRow ==
    lphase = "twice" => lrows = lrowsOnce

\* C29: after the process has stopped inside _save_last_timestamp, the load of
\* that checkpoint gives the value before the save or the saved timestamp.
C29_LoadGivesOldOrNew ==
    (kpc = "stopped" /\ kloaded # NoLoad)
        => /\ kloaded.kind = "value"
           /\ kloaded.value \in {LoadFile(ksave.before, now).value, ksave.ts}

\* the checkpoints and the seen set of an affiliate: the files with its id in
\* their names
OwnFiles(a) ==
    [cp |-> [e \in WindowEndpoints |->
                 LET name == <<"last_timestamp_", a, "_", e, ".txt">> IN
                 IF name \in DOMAIN xcp THEN xcp[name] ELSE None],
     seen |-> LET name == <<"seen_uids_", a, ".json">> IN
              IF name \in DOMAIN xseen THEN xseen[name] ELSE {}]

\* what the write at the end of the extraction of affiliate a makes of its own
\* files, as when the affiliate runs alone
AloneWrite(a) ==
    IF xop[a] = "customer_list"
    THEN [OwnFiles(a) EXCEPT !.seen = xlocal[a]]
    ELSE [OwnFiles(a) EXCEPT !.cp[xop[a]] = xend[a]]

\* C30: in every interleaving of the two affiliates' threads, the checkpoints and
\* the seen set of an affiliate change only by the write that ends that affiliate's
\* own extraction, and that write leaves what the affiliate running alone leaves.
C30_AffiliatesIsolated ==
    [][\A a \in Affiliates :
          /\ OwnFiles(a)' # OwnFiles(a) => xpc[a] = "commit" /\ xpc'[a] = "returned"
          /\ (xpc[a] = "commit" /\ xpc'[a] = "returned")
                 => OwnFiles(a)' = AloneWrite(a)]_vars

C30_Witness ==
    /\ xoverlap
    /\ \A a \in Affiliates : xpc[a] = "returned"
    /\ OwnFiles("A1").cp["trade_activities"] = TimeWindow
    /\ OwnFiles("A1").seen = {}
    /\ OwnFiles("A2").seen # {}
    /\ OwnFiles("A2").cp["trade_activities"] = None

\* C31: a default-mode trade or deposit extraction that was interrupted before its
\* pagination loop finished leaves the checkpoint of (affiliate, endpoint) at its
\* value before the run.
C31_InterruptKeepsCheckpoint ==
    (pc = "killed" /\ WindowCall /\ BothDefaulted)
        => checkpoint[aff][op] = h.cpBefore

C31_Witness ==
    /\ pc = "killed"
    /\ WindowCall /\ BothDefaulted
    /\ Len(bronze) = 1
    /\ Len(h.requests) = 2
    /\ checkpoint[aff][op] = h.cpBefore

\* the stored checkpoint of (affiliate, endpoint), None when there is no such file
CheckpointOf(a, e) == IF e \in DOMAIN checkpoint[a] THEN checkpoint[a][e] ELSE None

\* C32: an asset extraction that ended without a failure has requested its pages
\* inside a resolved window and has advanced the (affiliate, assets) checkpoint to
\* the end of that window.
C32_AssetsAdvanceCheckpoint ==
    (Finished /\ op = "assets" /\ NoFailure)
        => /\ start_ts # None /\ end_ts # None
           /\ \A i \in 1..Len(h.requests) :
                  h.requests[i].start = start_ts /\ h.requests[i].end = end_ts
           /\ CheckpointOf(aff, "assets") = end_ts

DirectPageCall == op = "customer_list" /\ argPageNo # None

\* C33: a customer-list extraction with page_no given has requested that one page
\* only, has saved all records of the page whether seen before or not, and has left
\* the seen-uid file as it was.
C33_DirectPageMode ==
    (DirectPageCall /\ pc \in {"returned", "raised"})
        => /\ Len(h.requests) = 1
           /\ h.requests[1].page = argPageNo
           /\ seenFile[aff] = h.seenBefore
           /\ (Finished /\ records # {})
                  => /\ Len(bronze) = 1
                     /\ bronze[1].page = argPageNo
                     /\ bronze[1].ids = records

C33_Witness ==
    /\ DirectPageCall
    /\ Finished
    /\ argPageNo = 2
    /\ h.seenBefore # {}
    /\ records \cap h.seenBefore # {}
    /\ Len(bronze) = 1
    /\ seenFile[aff] = h.seenBefore

\* page 1 of the running call came back without records
EmptyFirstPage ==
    /\ ~h.reqFailed
    /\ Len(h.requests) >= 1
    /\ h.requests[1].got = {}

\* C34: a default-mode trade or deposit extraction whose page 1 had no records has
\* stored nothing in bronze, has requested no further page and has advanced the
\* checkpoint to the end of its window.
C34_EmptyWindowCompletes ==
    (Finished /\ WindowCall /\ BothDefaulted /\ EmptyFirstPage)
        => /\ bronze = <<>>
           /\ Len(h.requests) = 1
           /\ checkpoint[aff][op] = end_ts

C34_Witness ==
    /\ Finished /\ WindowCall /\ BothDefaulted /\ EmptyFirstPage
    /\ op = "deposits"
    /\ bronze = <<>>
    /\ h.cpBefore # None
    /\ checkpoint[aff][op] = h.cpBefore + TimeWindow

\* C35: a default-mode run that follows a default-mode run for the same (affiliate,
\* endpoint) that ended without failure starts its window at the end of that run's
\* window.
C35_WindowsContiguous ==
    [][(/\ Finished /\ WindowCall /\ BothDefaulted /\ NoFailure
        /\ pc' = "request" /\ op' = op /\ aff' = aff
        /\ argStart' = None /\ argEnd' = None)
           => start_ts' = end_ts]_vars

C35_Witness ==
    /\ pc = "request" /\ WindowCall /\ BothDefaulted
    /\ runs = 2
    /\ ~h.prevFailed
    /\ h.cpBefore = TimeWindow
    /\ start_ts = TimeWindow
    /\ end_ts = TimeWindow + TimeWindow

\* the uids of the customer records saved to bronze for an affiliate so far
SavedToBronze(a) ==
    writtenBefore[a]
        \cup (IF op = "customer_list" /\ aff = a THEN IdsOf(bronze) ELSE {})

\* C36: every uid in the seen-uid file of an affiliate is the uid of a record that
\* has been saved to bronze for that affiliate.
C36_SeenWithinBronze ==
    \A a \in Affiliates : seenFile[a] \subseteq SavedToBronze(a)

C36_Witness ==
    /\ pc = "raised" /\ PollingCall
    /\ h.saveFailed
    /\ seenFile[aff] # {}
    /\ h.seenBefore = seenFile[aff]
    /\ seenFile[aff] \subseteq writtenBefore[aff]

\* what a window extraction has done: its page requests, its bronze saves and its
\* checkpoint write
Observable(m) ==
    [requests |-> m.requests, saves |-> m.saves, cpWrite |-> m.cpWrite,
     ended |-> m.pc = "returned"]

C38_TokenRange ==
    [][/\ tokens' <= Burst * TicksPerToken
       /\ \A t \in Threads : (rpc[t] = "store" /\ rpc'[t] = "done") => tokens' >= 0]_vars

C38_Witness ==
    /\ Returned # {}
    /\ tokens < 0
    /\ \E t \in Threads : rpc[t] = "sleep" /\ lock = t

\* C39: after the bronze table loader driver has processed its affiliates, each
\* bronze table holds rows of every affiliate for which rows were loaded into it,
\* not only those of the affiliate processed last.
C39_TablesKeepEveryAffiliate ==
    bpc = "ended" =>
        \A p \in bloaded : \E row \in bdb[p[1]].rows : row.rec.affiliate_id = p[2]
====
